---- MODULE Spec2Model ----
(***************************************************************************)
(* git2wiki.py: sync the .js/.css files of local git checkouts with wiki   *)
(* pages.  The model follows main(): parse_args, pywikibot.Site, the lazy  *)
(* FileSystemScanner.scan generator, the page processors and the           *)
(* WikiPublisher, and the fixed global page published at the end.          *)
(*                                                                         *)
(* Strings are sequences of tokens.  File names, option values and path    *)
(* strings are spelled token by token; a source text is a sequence over    *)
(* DocOpen, DocClose and Other (see Alphabet).                             *)
(***************************************************************************)
EXTENDS Naturals, Sequences, FiniteSets

VARIABLES
    pc,         \* where main() stands
    config,     \* SyncConfig returned by parse_args, NoConfig before
    reported,   \* options for which pywikibot.error was called
    missing,    \* missing_params handed to suggest_help
    exitStatus, \* status of sys.exit, NoExit while running
    site,       \* pywikibot.Site() has been created
    walk,       \* what os.walk(root_dir) lists below the root
    cursor,     \* position of the scan generator in the walk
    source,     \* SourceFile in hand
    minified,   \* (minified, version) returned by JSMinifier.minify
    page,       \* WikiPage in hand
    yielded,    \* SourceFiles yielded so far (path, repo_name, filename)
    published,  \* pages saved on the wiki, in order
    events,     \* trace of reads, transforms and publish attempts
    error,      \* exception that ended the run, NoError otherwise
    fn          \* input and output of a page builder applied in isolation

vars == <<pc, config, reported, missing, exitStatus, site, walk, cursor,
          source, minified, page, yielded, published, events,
          error, fn>>

----------------------------------------------------------------------------
(* Bounds                                                                  *)

MaxArgs == 3

MaxFiles == 2

MaxPageLen == 6

----------------------------------------------------------------------------
(* Strings                                                                 *)

None == <<"None">>

SeqsUpTo(S, n) == UNION {[1..k -> S] : k \in 0..n}

Lower(s) ==
    [i \in 1..Len(s) |->
        CASE s[i] = "J" -> "j"
          [] s[i] = "S" -> "s"
          [] s[i] = "C" -> "c"
          [] OTHER -> s[i]]

EndsWith(s, suffix) ==
    /\ Len(s) >= Len(suffix)
    /\ SubSeq(s, Len(s) - Len(suffix) + 1, Len(s)) = suffix

Contains(s, sub) ==
    \E i \in 1..(Len(s) + 1) :
        /\ i + Len(sub) - 1 <= Len(s)
        /\ SubSeq(s, i, i + Len(sub) - 1) = sub

IsPrefix(s, t) == Len(s) <= Len(t) /\ SubSeq(t, 1, Len(s)) = s

Count(s, S) == Cardinality({i \in 1..Len(s) : s[i] \in S})

\* str % arg for a template with "%s" placeholders
RECURSIVE Format(_, _)
Format(template, arg) ==
    IF template = <<>> THEN <<>>
    ELSE (IF Head(template) = "%s" THEN arg ELSE <<Head(template)>>)
         \o Format(Tail(template), arg)

Falsy(v) == v = None \/ v = <<>>

----------------------------------------------------------------------------
(* Configuration: parse_args                                               *)

ArgPool ==
    { <<"-github", ":", "alice">>,
      <<"-github">>,
      <<"-prefix", ":", "User", ":", "Bot/">>,
      <<"-prefix", ":">>,
      <<"-repo", ":", "f">>,
      <<"-repo">>,
      <<"-mypath", ":", ".">>,
      <<"-all">>,
      <<"-track">> }

CommandLines == SeqsUpTo(ArgPool, MaxArgs)

TrackingTemplate == <<"[[File:", "%s", "]] (workaround for [[phab:T35355]])">>

GithubSummaryTemplate == <<"Sync with ", "%s">>

UglifySummaryTemplate == <<"minify with UgliPyJS ", "%s">>

Cwd == <<"/", "home">>

\* arg.partition(":")
Partition(arg) ==
    LET colons == {i \in 1..Len(arg) : arg[i] = ":"} IN
    IF colons = {} THEN [option |-> arg, value |-> <<>>]
    ELSE LET k == CHOOSE i \in colons : \A j \in colons : i <= j IN
         [option |-> SubSeq(arg, 1, k - 1), value |-> SubSeq(arg, k + 1, Len(arg))]

\* Path(value): the empty string is the current directory
PathOf(value) == IF value = <<>> THEN <<".">> ELSE value

ParseStart ==
    [user_prefix |-> None, github_user |-> None, tracking |-> None,
     allow_null_edits |-> FALSE, repo_filter |-> None, root_dir |-> None,
     errors |-> <<>>]

\* one turn of the loop over pywikibot.handle_args()
ParseArg(acc, arg) ==
    LET p == Partition(arg)
        a == IF p.value = <<>> /\ p.option \notin {<<"-all">>, <<"-track">>}
             THEN [acc EXCEPT !.errors = Append(@, p.option)]
             ELSE acc
    IN  CASE p.option = <<"-all">>    -> [a EXCEPT !.allow_null_edits = TRUE]
          [] p.option = <<"-track">>  -> [a EXCEPT !.tracking = TrackingTemplate]
          [] p.option = <<"-prefix">> -> [a EXCEPT !.user_prefix = p.value]
          [] p.option = <<"-repo">>   -> [a EXCEPT !.repo_filter = p.value]
          [] p.option = <<"-mypath">> -> [a EXCEPT !.root_dir = PathOf(p.value)]
          [] p.option = <<"-github">> -> [a EXCEPT !.github_user = p.value]
          [] OTHER -> a

RECURSIVE ParseLoop(_, _)
ParseLoop(acc, args) ==
    IF args = <<>> THEN acc ELSE ParseLoop(ParseArg(acc, Head(args)), Tail(args))

MissingParams(acc) ==
    (IF Falsy(acc.github_user) THEN <<"-github:<username>">> ELSE <<>>)
    \o (IF Falsy(acc.user_prefix) THEN <<"-prefix:<value>">> ELSE <<>>)

SyncConfig(acc) ==
    [user_prefix |-> acc.user_prefix,
     github_user |-> acc.github_user,
     tracking_template |-> acc.tracking,
     allow_null_edits |-> acc.allow_null_edits,
     repo_filter |-> acc.repo_filter,
     root_dir |-> IF acc.root_dir = None THEN Cwd ELSE acc.root_dir,
     github_summary_template |-> GithubSummaryTemplate,
     uglify_summary_template |-> UglifySummaryTemplate]

NoConfig == [none |-> TRUE]

NoExit == <<>>

----------------------------------------------------------------------------
(* Filesystem and FileSystemScanner.scan                                   *)

FJs == <<"f", ".", "j", "s">>

BJs == <<"b", ".", "J", "S">>

FCss == <<"f", ".", "C", "s", "s">>

BTxt == <<"b", ".", "t", "x", "t">>

FileNames == {FJs, BJs, FCss, BTxt}

\* directories below the root, in the order os.walk lists them
DirOrder == << <<"src">>, <<"foo", "src">>, <<"foo", "xsrc">> >>

NoDup(s) == \A i, j \in 1..Len(s) : i # j => s[i] # s[j]

FileLists == {fl \in SeqsUpTo(FileNames, MaxFiles) : NoDup(fl)}

\* the listings os.walk can give: the directories of DirOrder that hold
\* files, each with its files, at most MaxFiles files in all
RECURSIVE WalksFrom(_, _)
WalksFrom(k, budget) ==
    IF k > Len(DirOrder) THEN {<<>>}
    ELSE LET rest(b) == WalksFrom(k + 1, b) IN
         rest(budget)
         \cup UNION { { <<[dir |-> DirOrder[k], files |-> fl]>> \o w :
                            w \in rest(budget - Len(fl)) } :
                      fl \in {f \in FileLists : Len(f) >= 1 /\ Len(f) <= budget} }

Walks == WalksFrom(1, MaxFiles)

\* os.path.join(root, d1, d2, ...)
RECURSIVE DirPath(_, _)
DirPath(root, rel) ==
    IF rel = <<>> THEN root ELSE DirPath(root \o <<"/", Head(rel)>>, Tail(rel))

\* Path(dirpath).parts
Parts(dirpath) ==
    LET IsName(t) == t \notin {"/", "."}
        names == SelectSeq(dirpath, IsName)
    IN  IF dirpath # <<>> /\ Head(dirpath) = "/" THEN <<"/">> \o names ELSE names

HasSourceExt(name) ==
    \/ EndsWith(Lower(name), <<".", "j", "s">>)
    \/ EndsWith(Lower(name), <<".", "c", "s", "s">>)

PassesFilter(cfg, name) ==
    ~(~Falsy(cfg.repo_filter) /\ ~Contains(name, cfg.repo_filter))

\* the generator runs from position (di, fi) to its next yield, to the
\* IndexError of parts[-2], or to the end of the walk
RECURSIVE Advance(_, _, _, _)
Advance(w, cfg, di, fi) ==
    IF di > Len(w) THEN [kind |-> "end", di |-> di, fi |-> fi]
    ELSE LET dirpath == DirPath(cfg.root_dir, w[di].dir) IN
         IF ~EndsWith(dirpath, <<"/", "src">>) THEN Advance(w, cfg, di + 1, 1)
         ELSE IF Len(Parts(dirpath)) < 2
              THEN [kind |-> "IndexError", di |-> di, fi |-> fi]
         ELSE IF fi > Len(w[di].files) THEN Advance(w, cfg, di + 1, 1)
         ELSE IF ~HasSourceExt(w[di].files[fi]) THEN Advance(w, cfg, di, fi + 1)
         ELSE IF ~PassesFilter(cfg, w[di].files[fi]) THEN Advance(w, cfg, di, fi + 1)
         ELSE [kind |-> "file", di |-> di, fi |-> fi]

RepoName(dirpath) == Parts(dirpath)[Len(Parts(dirpath)) - 1]

SourceFile(w, cfg, di, fi, content) ==
    LET dirpath == DirPath(cfg.root_dir, w[di].dir) IN
    [path |-> dirpath \o <<"/">> \o w[di].files[fi],
     repo_name |-> RepoName(dirpath),
     filename |-> w[di].files[fi],
     content |-> content]

NoSource == [none |-> TRUE]

----------------------------------------------------------------------------
(* Texts, JSMinifier, GitHubReference and the page processors              *)

\* a text is a sequence over three tokens: the head of the pattern of
\* _wrap_code, its tail, and any other character
DocOpen == "/**\n *"

DocClose == " */\n"

Other == "x"

Alphabet == {DocOpen, DocClose, Other}

\* contents of the files read and outputs of the minifier in a run
SampleTexts ==
    { <<Other>>,
      <<DocOpen, Other, DocClose, Other>>,
      <<Other, DocOpen, Other, DocClose, DocOpen, Other, DocClose>> }

UglipyVersion == <<"0.2.5">>

\* MinifyResults losing the code on execjs.ProgramError
MinifyResultsDropCode(code, outputs) ==
    {[minified |-> m, version |-> UglipyVersion] : m \in outputs}
    \cup {[minified |-> <<>>, version |-> <<>>]}

\* what JSMinifier.minify can return: the compiled text with the package
\* version, or on execjs.ProgramError the code itself with no version
MinifyResults(code, outputs) ==
    {[minified |-> m, version |-> UglipyVersion] : m \in outputs}
    \cup {[minified |-> code, version |-> <<>>]}

NoMinify == [none |-> TRUE]

RepoUrl(github_user, repo_name) ==
    <<"https://github.com/">> \o github_user \o <<"/", repo_name>>

JsNowikiStart == "// <nowiki>\n"

JsNowikiEnd == "\n// </nowiki>"

CssNowikiStart == "/* <nowiki> */\n"

CssNowikiEnd == "\n/* </nowiki> */"

\* end of the leftmost match of /\*\*\n \*.+? \*/\n at or after from, 0 if none
MatchEnd(code, from) ==
    LET starts == {j \in from..Len(code) :
                      /\ code[j] = DocOpen
                      /\ \E k \in (j + 2)..Len(code) : code[k] = DocClose}
    IN  IF starts = {} THEN 0
        ELSE LET j == CHOOSE a \in starts : \A b \in starts : a <= b
                 ends == {k \in (j + 2)..Len(code) : code[k] = DocClose}
             IN  CHOOSE a \in ends : \A b \in ends : a <= b

\* re.sub(r"(/\*\*\n \*.+? \*/\n)", r"\1// <nowiki>\n", code, flags=re.DOTALL)
RECURSIVE ReSub(_, _)
ReSub(code, from) ==
    LET k == MatchEnd(code, from) IN
    IF k = 0 THEN SubSeq(code, from, Len(code))
    ELSE SubSeq(code, from, k) \o <<JsNowikiStart>> \o ReSub(code, k + 1)

WrapCode(cfg, code, title) ==
    LET subbed == ReSub(code, 1)
        wrapped == (IF subbed = code THEN <<JsNowikiStart>> \o code ELSE subbed)
                   \o <<JsNowikiEnd>>
    IN  IF ~Falsy(cfg.tracking_template)
        THEN <<"// ">> \o Format(cfg.tracking_template, title) \o <<"\n">> \o wrapped
        ELSE wrapped

JsSupports(src) == EndsWith(Lower(src.filename), <<".", "j", "s">>)

JsProcess(cfg, src, m) ==
    LET title == cfg.user_prefix \o src.filename
        sync == Format(cfg.github_summary_template,
                       RepoUrl(cfg.github_user, src.repo_name))
    IN  [title |-> title,
         content |-> WrapCode(cfg, m.minified, title),
         summary |-> IF m.version # <<>>
                     THEN sync \o <<"; ">>
                          \o Format(cfg.uglify_summary_template, m.version)
                     ELSE sync]

\* CssSupports without lower()
CssSupportsCaseSensitive(src) == EndsWith(src.filename, <<".", "c", "s", "s">>)

CssSupports(src) == EndsWith(Lower(src.filename), <<".", "c", "s", "s">>)

CssProcess(cfg, src) ==
    LET title == cfg.user_prefix \o src.filename
        content == <<CssNowikiStart>> \o src.content \o <<CssNowikiEnd>>
    IN  [title |-> title,
         content |-> IF ~Falsy(cfg.tracking_template)
                     THEN <<"/* ">> \o Format(cfg.tracking_template, title)
                          \o <<" */\n">> \o content
                     ELSE content,
         summary |-> Format(cfg.github_summary_template,
                            RepoUrl(cfg.github_user, src.repo_name))]

GlobalTitle == <<"User:He7d3r/global.js">>

GlobalBuild ==
    [title |-> GlobalTitle,
     content |-> <<"// [[File:User:He7d3r/global.js]] (workaround for [[phab:T35355]])\n",
                   "//{ {subst:User:He7d3r/Tools.js}}\n",
                   "{{subst:User:He7d3r/Tools.js}}">>,
     summary |-> <<"Update">>]

NoPage == [none |-> TRUE]

----------------------------------------------------------------------------
(* main                                                                    *)

NoFn == [none |-> TRUE]

NoWalk == <<>>

Init ==
    /\ pc = "START"
    /\ config = NoConfig
    /\ reported = <<>>
    /\ missing = <<>>
    /\ exitStatus = NoExit
    /\ site = FALSE
    /\ walk = NoWalk
    /\ cursor = [di |-> 1, fi |-> 1]
    /\ source = NoSource
    /\ minified = NoMinify
    /\ page = NoPage
    /\ yielded = <<>>
    /\ published = <<>>
    /\ events = <<>>
    /\ error = "none"
    /\ fn = NoFn

\* an exception leaves main: the interpreter prints it and exits with 1
Raise(name) ==
    /\ error' = name
    /\ pc' = "ABORTED"
    /\ exitStatus' = <<1>>

\* config = parse_args()
ParseArgs ==
    /\ pc = "START"
    /\ \E argv \in CommandLines :
        LET acc == ParseLoop(ParseStart, argv) IN
        /\ reported' = acc.errors
        /\ missing' = MissingParams(acc)
        /\ IF MissingParams(acc) # <<>>
           THEN /\ pc' = "EXITED"
                /\ exitStatus' = <<2>>
                /\ UNCHANGED config
           ELSE /\ pc' = "CONFIGURED"
                /\ config' = SyncConfig(acc)
                /\ UNCHANGED exitStatus
    /\ UNCHANGED <<site, walk, cursor, source, minified, page, yielded,
                   published, events, error, fn>>

\* site = pywikibot.Site(), the collaborators are built and scanner.scan()
\* starts os.walk over the tree found below root_dir
Setup ==
    /\ pc = "CONFIGURED"
    /\ site' = TRUE
    /\ walk' \in Walks
    /\ pc' = "ENUMERATING"
    /\ UNCHANGED <<config, reported, missing, exitStatus, cursor, source,
                   minified, page, yielded, published, events, error, fn>>

\* ScanYield reading the next file while a page still waits for its publish
ScanYieldAhead ==
    /\ pc \in {"ENUMERATING", "PUBLISH"}
    /\ LET stop == Advance(walk, config, cursor.di, cursor.fi) IN
        /\ stop.kind = "file"
        /\ \E content \in SampleTexts :
            source' = SourceFile(walk, config, stop.di, stop.fi, content)
        /\ cursor' = [di |-> stop.di, fi |-> stop.fi + 1]
    /\ yielded' = Append(yielded, [path |-> source'.path,
                                   repo_name |-> source'.repo_name,
                                   filename |-> source'.filename])
    /\ events' = Append(events, "read")
    /\ pc' = "TRANSFORM"
    /\ UNCHANGED <<config, reported, missing, exitStatus, site, walk, minified,
                   page, published, error, fn>>

\* for source in scanner.scan(): the generator yields the next file
ScanYield ==
    /\ pc = "ENUMERATING"
    /\ LET stop == Advance(walk, config, cursor.di, cursor.fi) IN
        /\ stop.kind = "file"
        /\ \E content \in SampleTexts :
            source' = SourceFile(walk, config, stop.di, stop.fi, content)
        /\ cursor' = [di |-> stop.di, fi |-> stop.fi + 1]
    /\ yielded' = Append(yielded, [path |-> source'.path,
                                   repo_name |-> source'.repo_name,
                                   filename |-> source'.filename])
    /\ events' = Append(events, "read")
    /\ pc' = "TRANSFORM"
    /\ UNCHANGED <<config, reported, missing, exitStatus, site, walk, minified,
                   page, published, error, fn>>

\* ScanReadError catching the error and going on to the next file
ScanReadSkip ==
    /\ pc = "ENUMERATING"
    /\ LET stop == Advance(walk, config, cursor.di, cursor.fi) IN
        /\ stop.kind = "file"
        /\ cursor' = [di |-> stop.di, fi |-> stop.fi + 1]
    /\ error' = "FileAccessError"
    /\ UNCHANGED <<pc, exitStatus, config, reported, missing, site, walk, source,
                   minified, page, yielded, published, events, fn>>

\* open() or read() of a matched file raises inside the generator
ScanReadError ==
    /\ pc = "ENUMERATING"
    /\ LET stop == Advance(walk, config, cursor.di, cursor.fi) IN
        /\ stop.kind = "file"
        /\ cursor' = [di |-> stop.di, fi |-> stop.fi]
    /\ Raise("FileAccessError")
    /\ UNCHANGED <<config, reported, missing, site, walk, source, minified,
                   page, yielded, published, events, fn>>

\* Path(dirpath).parts[-2] of a one-part path raises inside the generator
ScanIndexError ==
    /\ pc = "ENUMERATING"
    /\ LET stop == Advance(walk, config, cursor.di, cursor.fi) IN
        /\ stop.kind = "IndexError"
        /\ cursor' = [di |-> stop.di, fi |-> stop.fi]
    /\ Raise("IndexError")
    /\ UNCHANGED <<config, reported, missing, site, walk, source, minified,
                   page, yielded, published, events, fn>>

\* the generator is exhausted: the loop over the files ends
ScanEnd ==
    /\ pc = "ENUMERATING"
    /\ LET stop == Advance(walk, config, cursor.di, cursor.fi) IN
        /\ stop.kind = "end"
        /\ cursor' = [di |-> stop.di, fi |-> stop.fi]
    /\ pc' = "BOOTSTRAP"
    /\ UNCHANGED <<config, reported, missing, exitStatus, site, walk, source,
                   minified, page, yielded, published, events, error, fn>>

\* JavaScriptPageProcessor is the first processor and supports the file
TransformJs ==
    /\ pc = "TRANSFORM"
    /\ JsSupports(source)
    /\ \E m \in MinifyResults(source.content, SampleTexts) :
        /\ minified' = m
        /\ page' = JsProcess(config, source, m)
    /\ events' = Append(events, IF minified'.version = <<>> THEN "js_unminified" ELSE "js")
    /\ pc' = "PUBLISH"
    /\ UNCHANGED <<config, reported, missing, exitStatus, site, walk, cursor,
                   source, yielded, published, error, fn>>

\* the minifier raises something other than execjs.ProgramError
TransformJsRaises ==
    /\ pc = "TRANSFORM"
    /\ JsSupports(source)
    /\ Raise("MinifierError")
    /\ UNCHANGED <<config, reported, missing, site, walk, cursor, source,
                   minified, page, yielded, published, events, fn>>

\* the second processor is tried; with no supporting processor the inner
\* loop ends without a page
TransformCss ==
    /\ pc = "TRANSFORM"
    /\ ~JsSupports(source)
    /\ IF CssSupports(source)
       THEN /\ page' = CssProcess(config, source)
            /\ events' = Append(events, "css")
            /\ pc' = "PUBLISH"
            /\ UNCHANGED source
       ELSE /\ pc' = "ENUMERATING"
            /\ source' = NoSource
            /\ UNCHANGED <<page, events>>
    /\ UNCHANGED <<config, reported, missing, exitStatus, site, walk, cursor,
                   minified, yielded, published, error, fn>>

\* WikiPublisher.publish(page): wiki_page.save succeeds
PublishOk ==
    /\ pc \in {"PUBLISH", "BOOTSTRAP_PUBLISH"}
    /\ published' = Append(published, [title |-> page.title,
                                       summary |-> page.summary,
                                       force |-> config.allow_null_edits])
    /\ events' = Append(events, "publish")
    /\ source' = NoSource
    /\ minified' = NoMinify
    /\ page' = NoPage
    /\ IF pc = "PUBLISH"
       THEN pc' = "ENUMERATING" /\ UNCHANGED exitStatus
       ELSE pc' = "DONE" /\ exitStatus' = <<0>>
    /\ UNCHANGED <<config, reported, missing, site, walk, cursor, yielded,
                   error, fn>>

\* PublishFail with the error caught and the run going on
PublishFailContinue ==
    /\ pc \in {"PUBLISH", "BOOTSTRAP_PUBLISH"}
    /\ events' = Append(events, "publish_failed")
    /\ error' = "PublishError"
    /\ source' = NoSource
    /\ minified' = NoMinify
    /\ page' = NoPage
    /\ IF pc = "PUBLISH"
       THEN pc' = "ENUMERATING" /\ UNCHANGED exitStatus
       ELSE pc' = "DONE" /\ exitStatus' = <<0>>
    /\ UNCHANGED <<config, reported, missing, site, walk, cursor, yielded,
                   published, fn>>

\* WikiPublisher.publish(page): wiki_page.save raises
PublishFail ==
    /\ pc \in {"PUBLISH", "BOOTSTRAP_PUBLISH"}
    /\ events' = Append(events, "publish_failed")
    /\ Raise("PublishError")
    /\ UNCHANGED <<config, reported, missing, site, walk, cursor, source,
                   minified, page, yielded, published, fn>>

\* BootstrapBuild with the global page left out
BootstrapSkip ==
    /\ pc = "BOOTSTRAP"
    /\ pc' = "DONE"
    /\ exitStatus' = <<0>>
    /\ UNCHANGED <<config, reported, missing, site, walk, cursor, source,
                   minified, page, yielded, published, events, error, fn>>

\* global_processor.build()
BootstrapBuild ==
    /\ pc = "BOOTSTRAP"
    /\ page' = GlobalBuild
    /\ events' = Append(events, "global")
    /\ pc' = "BOOTSTRAP_PUBLISH"
    /\ UNCHANGED <<config, reported, missing, exitStatus, site, walk, cursor,
                   source, minified, yielded, published, error, fn>>

Next ==
    \/ ParseArgs
    \/ Setup
    \/ ScanYield
    \/ ScanReadError
    \/ ScanIndexError
    \/ ScanEnd
    \/ TransformJs
    \/ TransformJsRaises
    \/ TransformCss
    \/ PublishOk
    \/ PublishFail
    \/ BootstrapBuild

Spec == Init /\ [][Next]_vars

----------------------------------------------------------------------------
(* The page builders applied in isolation to every text up to MaxPageLen   *)

Texts == SeqsUpTo(Alphabet, MaxPageLen)

PageConfig(track) ==
    SyncConfig(ParseLoop(ParseStart,
        << <<"-github", ":", "alice">>, <<"-prefix", ":", "User", ":", "Bot/">> >>
        \o (IF track THEN << <<"-track">> >> ELSE <<>>)))

PageSource(name, code) ==
    [path |-> Cwd \o <<"/", "foo", "/", "src", "/">> \o name,
     repo_name |-> "foo", filename |-> name, content |-> code]

PageInit ==
    /\ pc = "START"
    /\ config = NoConfig
    /\ reported = <<>>
    /\ missing = <<>>
    /\ exitStatus = NoExit
    /\ site = FALSE
    /\ walk = NoWalk
    /\ cursor = [di |-> 1, fi |-> 1]
    /\ source = NoSource
    /\ minified = NoMinify
    /\ page = NoPage
    /\ yielded = <<>>
    /\ published = <<>>
    /\ events = <<>>
    /\ error = "none"
    /\ fn \in {[kind |-> k, code |-> c, track |-> t, out |-> NoPage] :
                  k \in {"js", "css"}, c \in Texts, t \in BOOLEAN}
              \cup {[kind |-> "global", code |-> <<>>, track |-> FALSE, out |-> NoPage]}

\* JavaScriptPageProcessor.process on a text the minifier returned
BuildJs ==
    /\ fn.kind = "js" /\ fn.out = NoPage
    /\ fn' = [fn EXCEPT !.out =
                JsProcess(PageConfig(fn.track), PageSource(FJs, fn.code),
                          [minified |-> fn.code, version |-> UglipyVersion])]
    /\ UNCHANGED <<pc, config, reported, missing, exitStatus, site, walk, cursor,
                   source, minified, page, yielded, published, events, error>>

\* CssPageProcessor.process
BuildCss ==
    /\ fn.kind = "css" /\ fn.out = NoPage
    /\ fn' = [fn EXCEPT !.out =
                CssProcess(PageConfig(fn.track), PageSource(FCss, fn.code))]
    /\ UNCHANGED <<pc, config, reported, missing, exitStatus, site, walk, cursor,
                   source, minified, page, yielded, published, events, error>>

\* GlobalPageProcessor.build
BuildGlobal ==
    /\ fn.kind = "global" /\ fn.out = NoPage
    /\ fn' = [fn EXCEPT !.out = GlobalBuild]
    /\ UNCHANGED <<pc, config, reported, missing, exitStatus, site, walk, cursor,
                   source, minified, page, yielded, published, events, error>>

PageNext == BuildJs \/ BuildCss \/ BuildGlobal

SpecPage == PageInit /\ [][PageNext]_vars

----------------------------------------------------------------------------
(* Properties                                                              *)

Last(s) == s[Len(s)]

Range(s) == {s[i] : i \in 1..Len(s)}

TransformEvents == {"js", "js_unminified", "css"}

\* the successors the linear order allows to each state of main
Succ(p) ==
    CASE p = "START" -> {"CONFIGURED", "EXITED"}
      [] p = "CONFIGURED" -> {"ENUMERATING"}
      [] p = "ENUMERATING" -> {"TRANSFORM", "BOOTSTRAP", "ABORTED"}
      [] p = "TRANSFORM" -> {"PUBLISH", "ABORTED"}
      [] p = "PUBLISH" -> {"ENUMERATING", "ABORTED"}
      [] p = "BOOTSTRAP" -> {"BOOTSTRAP_PUBLISH"}
      [] p = "BOOTSTRAP_PUBLISH" -> {"DONE", "ABORTED"}
      [] OTHER -> {}

Phase(p) ==
    CASE p = "START" -> 0
      [] p = "CONFIGURED" -> 1
      [] p \in {"ENUMERATING", "TRANSFORM", "PUBLISH"} -> 2
      [] p \in {"BOOTSTRAP", "BOOTSTRAP_PUBLISH"} -> 3
      [] OTHER -> 4

\* every read follows the completed publish of the file before it, every
\* transform follows its read, every publish follows its transform, and
\* the global page comes after the last file's publish, once
EventOrder ==
    \A i \in 1..Len(events) :
        /\ events[i] = "read" =>
              /\ i = 1 \/ events[i - 1] = "publish"
              /\ "global" \notin Range(SubSeq(events, 1, i))
        /\ events[i] \in TransformEvents => i > 1 /\ events[i - 1] = "read"
        /\ events[i] \in {"publish", "publish_failed"} =>
              i > 1 /\ events[i - 1] \in TransformEvents \cup {"global"}
        /\ events[i] = "global" =>
              /\ i = 1 \/ events[i - 1] = "publish"
              /\ Count(events, {"global"}) = 1

PcOrder ==
    /\ pc \in {"START", "CONFIGURED", "EXITED"} => events = <<>>
    /\ pc \in {"ENUMERATING", "BOOTSTRAP"} =>
          /\ events = <<>> \/ Last(events) = "publish"
          /\ "global" \notin Range(events)
    /\ pc = "TRANSFORM" => events # <<>> /\ Last(events) = "read"
    /\ pc = "PUBLISH" => events # <<>> /\ Last(events) \in TransformEvents
    /\ pc = "BOOTSTRAP_PUBLISH" => events # <<>> /\ Last(events) = "global"
    /\ pc = "DONE" =>
          /\ Len(events) >= 2
          /\ Last(events) = "publish"
          /\ events[Len(events) - 1] = "global"

\* C1: main follows CONFIGURED -> ENUMERATING -> (per file: TRANSFORM ->
\* PUBLISH) -> BOOTSTRAP-PUBLISH -> DONE: a file's page is transformed and its
\* publish completes before the next file is read, the global page is
\* published only after the last file's publish, and no phase is re-entered.
C1_LinearOrder ==
    /\ [](EventOrder /\ PcOrder)
    /\ [][pc' # pc => (pc' \in Succ(pc) /\ Phase(pc') >= Phase(pc))]_vars

C1_Witness == pc = "DONE" /\ Len(yielded) >= 2

\* C2: a failing publish is fatal: it is the last thing the run does (no
\* later transform or publish, no retry), and the pages published before it
\* stay published.
C2_PublishFatal ==
    /\ []("publish_failed" \in Range(events) =>
            /\ Last(events) = "publish_failed"
            /\ Count(events, {"publish_failed"}) = 1
            /\ pc = "ABORTED"
            /\ error = "PublishError"
            /\ ~ENABLED Next
            /\ Len(published) = Count(events, {"publish"}))
    /\ [][IsPrefix(published, published')]_vars

C2_Witness ==
    /\ error = "PublishError"
    /\ Len(published) >= 1
    /\ page.title # GlobalTitle

SyncClause(cfg, src) ==
    <<"Sync with ", "https://github.com/">> \o cfg.github_user
    \o <<"/", src.repo_name>>

\* C3: when the minifier fails with the recoverable error the page is still
\* handed to the publisher, its body is the original source text, and its
\* summary is the repository-sync clause alone.
C3_MinifyFallback ==
    (pc = "PUBLISH" /\ JsSupports(source) /\ minified.version = <<>>) =>
        /\ minified.minified = source.content
        /\ page.content =
              WrapCode(config, source.content, config.user_prefix \o source.filename)
        /\ page.summary = SyncClause(config, source)
        /\ "minify with UgliPyJS " \notin Range(page.summary)
        /\ ENABLED PublishOk

C3_Witness ==
    /\ pc = "DONE"
    /\ \E i \in 1..Len(events) :
        /\ events[i] = "js_unminified"
        /\ \E j \in (i + 2)..Len(events) : events[j] \in TransformEvents

StartMarkers == {JsNowikiStart, CssNowikiStart}

EndMarkers == {JsNowikiEnd, CssNowikiEnd}

OneNowikiPair(content) ==
    /\ Count(content, StartMarkers) = 1
    /\ Count(content, EndMarkers) = 1
    /\ \E i, j \in 1..Len(content) :
        i < j /\ content[i] \in StartMarkers /\ content[j] \in EndMarkers

\* C4: every page handed to the publisher (JS, CSS and the global page) has
\* exactly one nowiki start marker and exactly one nowiki end marker, the
\* start before the end.
C4_OneNowikiPair ==
    pc \in {"PUBLISH", "BOOTSTRAP_PUBLISH"} => OneNowikiPair(page.content)

\* index of the end of a doc-comment block the text begins with, 0 if the
\* text does not begin with one
LeadingBlockEnd(body) ==
    IF /\ body # <<>>
       /\ Head(body) = DocOpen
       /\ \E k \in 3..Len(body) : body[k] = DocClose
    THEN CHOOSE k \in 3..Len(body) :
            /\ body[k] = DocClose
            /\ \A l \in 3..(k - 1) : body[l] # DocClose
    ELSE 0

\* C5: the nowiki start marker goes right after a doc-comment block the JS
\* body begins with and nowhere else; without a leading block it goes at the
\* very start of the body, also when a block occurs later in the text.
C5_MarkerPlacement ==
    (fn.kind = "js" /\ fn.out # NoPage) =>
        LET k == LeadingBlockEnd(fn.code) IN
        /\ Count(fn.out.content, {JsNowikiStart}) = 1
        /\ EndsWith(fn.out.content,
                    SubSeq(fn.code, 1, k) \o <<JsNowikiStart>>
                    \o SubSeq(fn.code, k + 1, Len(fn.code)) \o <<JsNowikiEnd>>)

\* C6: a malformed command line (a required setting missing or empty, or an
\* option given without its value) is reported, ends the process with a
\* non-zero status, and nothing touches the wiki or the filesystem.
C6_MalformedConfigExits ==
    (reported # <<>> \/ missing # <<>>) =>
        /\ pc = "EXITED"
        /\ exitStatus \notin {NoExit, <<0>>}
        /\ ~site
        /\ walk = NoWalk
        /\ events = <<>>
        /\ published = <<>>

PathAt(w, cfg, di, fi) == DirPath(cfg.root_dir, w[di].dir) \o <<"/">> \o w[di].files[fi]

Before(di, fi, dj, fj) == di < dj \/ (di = dj /\ fi < fj)

\* C7: an unreadable matched file aborts the run: nothing is published for
\* it or for a later file, the global page is not published, and the pages
\* of the files yielded before it are published.
C7_ReadErrorAborts ==
    error = "FileAccessError" =>
        /\ pc = "ABORTED"
        /\ ~ENABLED Next
        /\ PathAt(walk, config, cursor.di, cursor.fi) \notin
              {yielded[i].path : i \in 1..Len(yielded)}
        /\ \A i \in 1..Len(yielded) :
              \E di \in 1..Len(walk) : \E fi \in 1..Len(walk[di].files) :
                  /\ yielded[i].path = PathAt(walk, config, di, fi)
                  /\ Before(di, fi, cursor.di, cursor.fi)
        /\ Len(published) = Len(yielded)
        /\ \A i \in 1..Len(published) :
              published[i].title = config.user_prefix \o yielded[i].filename
        /\ "global" \notin Range(events)

C7_Witness ==
    /\ error = "FileAccessError"
    /\ Len(published) >= 1
    /\ HasSourceExt(walk[cursor.di].files[cursor.fi])

ClaimExt(name) ==
    \E n \in 1..Len(name) :
        Lower(SubSeq(name, n, Len(name))) \in {<<".", "j", "s">>, <<".", "c", "s", "s">>}

\* the SourceFiles the contract of the enumerator asks for, in walk order
RECURSIVE ClaimFiles(_, _, _, _)
ClaimFiles(w, cfg, di, fi) ==
    IF di > Len(w) THEN <<>>
    ELSE IF fi > Len(w[di].files) THEN ClaimFiles(w, cfg, di + 1, 1)
    ELSE LET dp == DirPath(cfg.root_dir, w[di].dir)
             name == w[di].files[fi]
             wanted == /\ Len(dp) >= 3
                       /\ dp[Len(dp)] = "src"
                       /\ dp[Len(dp) - 1] = "/"
                       /\ ClaimExt(name)
                       /\ (Falsy(cfg.repo_filter) \/ Contains(name, cfg.repo_filter))
         IN  (IF wanted
              THEN <<[path |-> dp \o <<"/">> \o name,
                      repo_name |-> dp[Len(dp) - 2],
                      filename |-> name]>>
              ELSE <<>>)
             \o ClaimFiles(w, cfg, di, fi + 1)

\* C8: for every tree and filter the enumerator yields exactly the .js/.css
\* files (case-insensitively) that sit directly in a directory whose path
\* ends with /src and whose name contains the filter, each with the name of
\* the directory above src as repo_name.
C8_ScanContract ==
    (pc \in {"BOOTSTRAP", "BOOTSTRAP_PUBLISH", "DONE"} \/ error = "IndexError") =>
        yielded = ClaimFiles(walk, config, 1, 1)

\* the contract holds of every scan that parts[-2] does not end
ScanContractUnlessIndexError ==
    /\ pc \in {"BOOTSTRAP", "BOOTSTRAP_PUBLISH", "DONE"} =>
          yielded = ClaimFiles(walk, config, 1, 1)
    /\ (walk # NoWalk /\ error # "IndexError") =>
          IsPrefix(yielded, ClaimFiles(walk, config, 1, 1))

GlobalPublished == \E i \in 1..Len(published) : published[i].title = GlobalTitle

\* no field of the configuration enables the global page
BootstrapEnabled(cfg) == "bootstrap" \in DOMAIN cfg

C10_EachFileOnce ==
    /\ \A i \in 1..Len(yielded) : JsSupports(yielded[i]) # CssSupports(yielded[i])
    /\ pc = "DONE" =>
          /\ Count(events, {"read"}) = Len(yielded)
          /\ Count(events, TransformEvents) = Len(yielded)
          /\ Count(events, {"publish"}) = Len(yielded) + 1
          /\ Len(published) = Len(yielded) + 1
          /\ \A i \in 1..Len(yielded) :
                published[i].title = config.user_prefix \o yielded[i].filename

C10_Witness ==
    /\ pc = "DONE"
    /\ \E i, j \in 1..Len(yielded) : JsSupports(yielded[i]) /\ CssSupports(yielded[j])

====
